---- MODULE Spec2Model ----
(***************************************************************************)
(* A model of the MD5 model loader and skinning code of q3                   *)
(* (src/src/client/md5/model/model.rs).                                      *)
(*                                                                           *)
(* The model file is a sequence of characters.  A character is either a      *)
(* whitespace character (" " or "\n") or a word unit: a maximal run of       *)
(* non-whitespace characters of the file, kept as one string.  The reader    *)
(* (read_char / eof / read_line) and the tokenizer macros are modelled on    *)
(* this sequence character by character, so that which whitespace character  *)
(* ends a word, and where the end of the file falls, are visible.            *)
(*                                                                           *)
(* Floating-point fields hold integers here: every number written in the     *)
(* files of the model is integral, and the kernels only add and multiply.    *)
(***************************************************************************)
EXTENDS Integers, Sequences, FiniteSets, TLC

VARIABLES
  desc,     \* the description the file's text was written from (the input)
  file,     \* the characters of the model file
  ps,       \* the reader and tokenizer: position, eof flag, param, error log
  pc,       \* the position of the program
  model,    \* the Model struct
  cur,      \* the locals of the "mesh" arm of load
  loadOk,   \* what load returned ("none" until it returns)
  last,     \* the last public call made on the loaded Model and its result
  snap,     \* the output buffers after each run of the kernel (SpecKernel only)
  states,   \* Director.states: the stack of states, the top last
  status,   \* of each state object: whether load or unload was called on it last
  trail     \* the last call made on the Director and the calls it made

\* the variables of the Director and those of the Model
dvars == <<states, status, trail>>
mvars == <<desc, file, ps, model, cur, loadOk, last, snap>>

vars == <<desc, file, ps, pc, model, cur, loadOk, last, snap, states, status, trail>>

----------------------------------------------------------------------------
(* Bounds of the model.                                                     *)

\* the longest joint sequence of a candidate animation
MaxAnimJoints == 2

\* the deepest stack of states the Director is driven to
MaxStates == 3

----------------------------------------------------------------------------
(* Characters.                                                              *)

SP == " "
NL == "\n"
\* what read_char returns at the end of the file: (-1 as char), not whitespace
EOFCH == "<eof>"

IsWhitespace(ch) == ch \in {SP, NL}

\* the one element of a set of one element: { F(v) : v \in {e} } computes e
\* once, before F is applied to it
Only(S) == CHOOSE x \in S : TRUE

----------------------------------------------------------------------------
(* Vectors and quaternions (module math, used by model.rs).                 *)

Zero3 == <<0, 0, 0>>
Add3(a, b) == <<a[1] + b[1], a[2] + b[2], a[3] + b[3]>>
Scale3(a, k) == <<a[1] * k, a[2] * k, a[3] * k>>
Cross3(a, b) == <<a[2] * b[3] - a[3] * b[2],
                  a[3] * b[1] - a[1] * b[3],
                  a[1] * b[2] - a[2] * b[1]>>

\* w = sqrt(max(0, 1 - x^2 - y^2 - z^2)) on integral components: 1 for the
\* zero vector, 0 as soon as one component is not 0.
ComputeW(q) == IF q[1] * q[1] + q[2] * q[2] + q[3] * q[3] = 0 THEN 1 ELSE 0

\* q v q* for the quaternion (u, w): v + 2w (u x v) + 2 u x (u x v)
RotateVec(u, w, v) ==
  Add3(v, Add3(Scale3(Cross3(u, v), 2 * w), Scale3(Cross3(u, Cross3(u, v)), 2)))

----------------------------------------------------------------------------
(* The reader: io::file_reader's read_char, eof and read_line.              *)

\* read_char: the next character, or EOFCH at the end of the file; eof()
\* turns true only once a read has hit the end.
RdChar(r) ==
  IF r.pos < Len(file)
  THEN [r EXCEPT !.ch = file[r.pos + 1], !.pos = r.pos + 1]
  ELSE [r EXCEPT !.ch = EOFCH, !.eof = TRUE]

\* while ch.is_whitespace() && !fio.eof() { ch = fio.read_char(); }
RECURSIVE SkipWhitespace(_)
SkipWhitespace(r) ==
  IF IsWhitespace(r.ch) /\ ~r.eof
  THEN Only({SkipWhitespace(c) : c \in {RdChar(r)}})
  ELSE r

\* while !ch.is_whitespace() && !fio.eof() { param.push_char(ch); ch = ... }
\* the whitespace character that ends the word has been read when it returns
RECURSIVE ReadWord(_)
ReadWord(r) ==
  IF ~IsWhitespace(r.ch) /\ ~r.eof
  THEN Only({ReadWord(c) : c \in {RdChar([r EXCEPT !.param = r.param \o r.ch])}})
  ELSE r

\* if !fio.eof() { param.push_char(ch); ch = fio.read_char(); while ... }
ReadWordIfAny(r) ==
  IF ~r.eof THEN ReadWord(RdChar([r EXCEPT !.param = r.ch])) ELSE r

\* the tokenizer after a read: the reader's position and flag, and the word
AfterRead(p, r) == [p EXCEPT !.pos = r.pos, !.eof = r.eof, !.param = r.param]

\* read_param!(): param = ""; skip whitespace; read the next word
ReadParam(p) ==
  Only({AfterRead(p, ReadWordIfAny(r))
          : r \in {SkipWhitespace(RdChar(
                     [pos |-> p.pos, eof |-> p.eof, param |-> "", ch |-> EOFCH]))}})

\* read_junk!() is read_param!()
ReadJunk(p) == ReadParam(p)

\* read_line's loop: read up to and including the next "\n", or to the end
RECURSIVE ReadLine(_)
ReadLine(r) ==
  Only({IF c.ch = EOFCH \/ c.ch = NL THEN c ELSE ReadLine(c) : c \in {RdChar(r)}})

\* ignore_line!(): fio.read_line(), its result dropped; param is kept
IgnoreLine(p) ==
  AfterRead(p, ReadLine([pos |-> p.pos, eof |-> p.eof, param |-> p.param, ch |-> EOFCH]))

----------------------------------------------------------------------------
(* FromStr::from_str for the integer and the float fields.                  *)

NoNum == [ok |-> FALSE, val |-> 0]
Num(n) == [ok |-> TRUE, val |-> n]

\* i32: an optional sign and digits only
ParseInt(w) ==
  CASE w = "-1" -> Num(-1)
    [] w = "0" -> Num(0)
    [] w = "1" -> Num(1)
    [] w = "2" -> Num(2)
    [] w = "3" -> Num(3)
    [] w = "5" -> Num(5)
    [] w = "10" -> Num(10)
    [] OTHER -> NoNum

\* f32: what i32 accepts, and a fraction part
ParseFloat(w) ==
  CASE w = "2.0" -> Num(2)
    [] w = "3.0" -> Num(3)
    [] OTHER -> ParseInt(w)

FromStr(kind, w) == IF kind = "int" THEN ParseInt(w) ELSE ParseFloat(w)

\* the end of read_type!: var takes the number when the word converts, and
\* keeps its value, with an error logged, when it does not
Converted(p1, num, old) ==
  IF num.ok
  THEN [ps |-> p1, val |-> num.val]
  ELSE [ps |-> [p1 EXCEPT !.errors = @ + 1], val |-> old]

ReadTypeOf(p1, old, kind) == Converted(p1, FromStr(kind, p1.param), old)

\* read_type!(var): read the next word and convert it
ReadType(p, old, kind) == Only({ReadTypeOf(p1, old, kind) : p1 \in {ReadParam(p)}})

----------------------------------------------------------------------------
(* The data model: Joint, Vertex, Triangle, Weight, Mesh as new() makes      *)
(* them (module md5, used by model.rs).                                      *)

JointNew ==
  [name |-> "", parent |-> 0, position |-> Zero3, orientation |-> Zero3, w |-> 0]
VertexNew ==
  [tex_coord |-> <<0, 0>>, start_weight |-> 0, weight_count |-> 0,
   position |-> Zero3, normal |-> Zero3]
TriangleNew == [indices |-> <<0, 0, 0>>]
WeightNew == [joint_id |-> 0, bias |-> 0, position |-> Zero3]
MeshNew ==
  [texture |-> "", verts |-> <<>>, triangles |-> <<>>, weights |-> <<>>,
   positions |-> <<>>, tex_coords |-> <<>>, indices |-> <<>>]

\* `as u32` of an i32: i itself when it is not negative, else 2^32 + i, which
\* is written <<"2^32+", i>> (TLC's integers have 32 bits)
AsU32(i) == IF i >= 0 THEN <<"u32", i>> ELSE <<"2^32+", i>>

----------------------------------------------------------------------------------------------------------------------------------------------------
(* load: the entries of the joints block and of the mesh sections.  The     *)
(* reads of one entry are listed in the order of the source: a junk word, a  *)
(* word kept as it is, or a number read into a field or into a component of  *)
(* a field.                                                                  *)

Junk == [kind |-> "junk", field |-> "", idx |-> 0]
WordOf(f) == [kind |-> "word", field |-> f, idx |-> 0]
IntOf(f) == [kind |-> "int", field |-> f, idx |-> 0]
IntInto(f, i) == [kind |-> "int", field |-> f, idx |-> i]
FloatOf(f) == [kind |-> "float", field |-> f, idx |-> 0]
FloatInto(f, i) == [kind |-> "float", field |-> f, idx |-> i]

JointReads ==
  <<WordOf("name"), IntOf("parent"), Junk,
    FloatInto("position", 1), FloatInto("position", 2), FloatInto("position", 3),
    Junk, Junk,
    FloatInto("orientation", 1), FloatInto("orientation", 2), FloatInto("orientation", 3),
    Junk>>
VertReads ==
  <<Junk, Junk, Junk, FloatInto("tex_coord", 1), FloatInto("tex_coord", 2), Junk,
    IntOf("start_weight"), IntOf("weight_count")>>
TriReads ==
  <<Junk, Junk, IntInto("indices", 1), IntInto("indices", 2), IntInto("indices", 3)>>
WeightReads ==
  <<Junk, Junk, IntOf("joint_id"), FloatOf("bias"), Junk,
    FloatInto("position", 1), FloatInto("position", 2), FloatInto("position", 3), Junk>>

GetField(rec, f) == IF f.idx = 0 THEN rec[f.field] ELSE rec[f.field][f.idx]
SetField(rec, f, v) ==
  IF f.idx = 0 THEN [rec EXCEPT ![f.field] = v] ELSE [rec EXCEPT ![f.field][f.idx] = v]

\* a number read into its field
Stored(r, rec, f) == [ps |-> r.ps, rec |-> SetField(rec, f, r.val)]
\* a word read into its field
Named(p1, rec, f) == [ps |-> p1, rec |-> SetField(rec, f, p1.param)]

\* one read of an entry
ReadOne(p, rec, f) ==
  CASE f.kind = "junk" -> [ps |-> ReadJunk(p), rec |-> rec]
    [] f.kind = "word" -> Named(ReadParam(p), rec, f)
    [] OTHER -> Stored(ReadType(p, GetField(rec, f), f.kind), rec, f)

\* the reads of an entry from the k-th on, each done before the next begins
RECURSIVE ReadEntry(_, _, _, _)
ReadEntry(p, rec, reads, k) ==
  IF k > Len(reads) THEN [ps |-> p, rec |-> rec]
  ELSE Only({ReadEntry(e.ps, e.rec, reads, k + 1) : e \in {ReadOne(p, rec, reads[k])}})

\* joint.orientation.compute_w()
WithW(joint) == [joint EXCEPT !.w = ComputeW(joint.orientation)]

\* mesh.verts.push(vert); mesh.tex_coords.push(vert.tex_coord)
PushVert(mesh, vert) ==
  [mesh EXCEPT !.verts = Append(@, vert), !.tex_coords = Append(@, vert.tex_coord)]

\* the three indices pushed last to first, which load does not do
PushTriReversed(mesh, tri) ==
  [mesh EXCEPT !.triangles = Append(@, tri),
               !.indices = @ \o <<AsU32(tri.indices[3]), AsU32(tri.indices[2]),
                                  AsU32(tri.indices[1])>>]

\* mesh.triangles.push(tri); mesh.indices.push(tri.indices[..] as u32) x 3
PushTri(mesh, tri) ==
  [mesh EXCEPT !.triangles = Append(@, tri),
               !.indices = @ \o <<AsU32(tri.indices[1]), AsU32(tri.indices[2]),
                                  AsU32(tri.indices[3])>>]

\* mesh.weights.push(weight)
PushWeight(mesh, weight) == [mesh EXCEPT !.weights = Append(@, weight)]

Push(what, mesh, rec) ==
  CASE what = "vert" -> PushVert(mesh, rec)
    [] what = "tri" -> PushTri(mesh, rec)
    [] what = "weight" -> PushWeight(mesh, rec)

ReadsOf(what) ==
  CASE what = "vert" -> VertReads
    [] what = "tri" -> TriReads
    [] what = "weight" -> WeightReads

----
(* The skinning kernels.                                                    *)

InRange(i, s) == 0 <= i /\ i < Len(s)

\* the weights a vertex sums: indices start_weight .. start_weight + count - 1
WeightIndices(vert) ==
  {vert.start_weight + m : m \in 0 .. (vert.weight_count - 1)}

\* every index the kernel uses is inside its vector: no bounds check fails.
\* skel is a sequence of joints that have a position, an orientation and a w.
SkinInBounds(skel, mesh) ==
  \A x \in 1 .. Len(mesh.verts) :
    \A i \in WeightIndices(mesh.verts[x]) :
      /\ InRange(i, mesh.weights)
      /\ InRange(mesh.weights[i + 1].joint_id, skel)

\* Sum the position of all the weights: m weights from index i on, added to acc
RECURSIVE SumWeights(_, _, _, _, _)
SumWeights(skel, weights, i, m, acc) ==
  IF m <= 0 THEN acc
  ELSE LET weight == weights[i + 1]
           joint == skel[weight.joint_id + 1]
           rot_pos == RotateVec(joint.orientation, joint.w, weight.position)
       IN  SumWeights(skel, weights, i + 1, m - 1,
                      Add3(acc, Scale3(Add3(joint.position, rot_pos), weight.bias)))

SkinVertex(skel, mesh, vert) ==
  SumWeights(skel, mesh.weights, vert.start_weight, vert.weight_count, Zero3)

\* the loop of prepare_mesh over the vertices from x on
RECURSIVE PrepareVerts(_, _, _)
PrepareVerts(joints, mesh, x) ==
  IF x > Len(mesh.verts) THEN mesh
  ELSE Only({PrepareVerts(joints,
                          [mesh EXCEPT !.verts[x] = vert,
                                       !.positions = Append(@, vert.position),
                                       !.tex_coords = Append(@, vert.tex_coord)],
                          x + 1)
               : vert \in {[mesh.verts[x] EXCEPT
                              !.position = SkinVertex(joints, mesh, mesh.verts[x]),
                              !.normal = Zero3]}})

\* the buffers left as they are, which prepare_mesh does not do
KeepBuffers(mesh) == mesh

\* the buffers prepare_mesh starts from
ClearBuffers(mesh) == [mesh EXCEPT !.positions = <<>>, !.tex_coords = <<>>]

\* prepare_mesh, when no bounds check fails
PrepareMesh(joints, mesh) == PrepareVerts(joints, ClearBuffers(mesh), 1)

\* the loop of prepare_mesh_with_skeleton over the vertices from i on
RECURSIVE SkinVerts(_, _, _)
SkinVerts(skel, mesh, i) ==
  IF i > Len(mesh.verts) THEN mesh
  ELSE Only({SkinVerts(skel, skinned, i + 1)
               : skinned \in {[mesh EXCEPT !.positions[i] =
                                 SkinVertex(skel, mesh, mesh.verts[i])]}})

\* a re-skinning that also empties the texture coordinates, which
\* prepare_mesh_with_skeleton does not do
ReskinAndClear(skel, mesh) == [SkinVerts(skel, mesh, 1) EXCEPT !.tex_coords = <<>>]

\* prepare_mesh_with_skeleton, when no bounds check fails
PrepareMeshWithSkeleton(skel, mesh) == SkinVerts(skel, mesh, 1)

----------------------------------------------------------------------------
(* The model files the model reads.  A file is written from a description:  *)
(* the words of its entries, the order of its sections, how its lines end,   *)
(* and where it is cut.                                                      *)

\* a line ends right after its last word ("tight"), or a whitespace character
\* (a space, a carriage return, the blank before a comment) precedes its
\* newline ("padded")
Eols == {"tight", "padded"}
Eol(e) == IF e = "tight" THEN <<NL>> ELSE <<SP, NL>>

RECURSIVE Words(_)
Words(ws) ==
  IF Len(ws) = 0 THEN <<>>
  ELSE IF Len(ws) = 1 THEN <<ws[1]>>
  ELSE <<ws[1], SP>> \o Words(Tail(ws))

Line(ws, e) == Words(ws) \o Eol(e)

RECURSIVE Lines(_, _, _)
Lines(LineOf(_, _), entries, k) ==
  IF k > Len(entries) THEN <<>>
  ELSE LineOf(k, entries[k]) \o Lines(LineOf, entries, k + 1)

\* the decimal word of an entry's index
IndexWord(k) == CASE k = 1 -> "0" [] k = 2 -> "1" [] k = 3 -> "2" [] OTHER -> "3"

JointsBlock(d) ==
  LET JointLine(k, j) ==
        Line(<<j.name, j.parent, "(", j.pos[1], j.pos[2], j.pos[3], ")",
               "(", j.ori[1], j.ori[2], j.ori[3], ")">>, d.eolJ)
  IN  Line(<<"joints", "{">>, d.eolJ) \o Lines(JointLine, d.joints, 1)
        \o Line(<<"}">>, d.eolJ)

MeshBlock(d) ==
  LET VertLine(k, v) ==
        Line(<<"vert", IndexWord(k), "(", v.u, v.v, ")", v.sw, v.wc>>, d.eolM)
      TriLine(k, t) == Line(<<"tri", IndexWord(k), t.a, t.b, t.c>>, d.eolM)
      WeightLine(k, w) ==
        Line(<<"weight", IndexWord(k), w.jid, w.bias,
               "(", w.pos[1], w.pos[2], w.pos[3], ")">>, d.eolM)
  IN  Line(<<"mesh", "{">>, d.eolM)
        \o Line(<<"shader", d.shader>>, d.eolM)
        \o Line(<<"numverts", d.declV>>, d.eolM) \o Lines(VertLine, d.verts, 1)
        \o Line(<<"numtris", d.declT>>, d.eolM) \o Lines(TriLine, d.tris, 1)
        \o Line(<<"numweights", d.declW>>, d.eolM) \o Lines(WeightLine, d.weights, 1)
        \o (IF d.close THEN Line(<<"}">>, d.eolM) ELSE <<>>)

Section(d, name) ==
  CASE name = "version" -> Line(<<"MD5Version", "10">>, d.eolJ)
    [] name = "commandline" -> Line(<<"commandline", "\"exported\"">>, d.eolJ)
    [] name = "numJoints" -> Line(<<"numJoints", d.declJ>>, d.eolJ)
    [] name = "numMeshes" -> Line(<<"numMeshes", d.declM>>, d.eolJ)
    [] name = "joints" -> JointsBlock(d)
    [] name = "mesh" -> MeshBlock(d)
    [] name = "// by hand" -> Line(<<"//", "by", "hand">>, d.eolJ)
    [] name = "// numJoints 2" -> Line(<<"//", "numJoints", "2">>, d.eolJ)
    [] name = "// mesh data" -> Line(<<"//", "mesh", "data">>, d.eolJ)

RECURSIVE Sections(_, _)
Sections(d, k) ==
  IF k > Len(d.order) THEN <<>>
  ELSE Section(d, d.order[k]) \o Sections(d, k + 1)

\* the text of the file: its sections in order, cut after d.cut characters
\* when d.cut is not negative
FileText(d) ==
  LET full == Sections(d, 1)
  IN  IF d.cut < 0 \/ d.cut >= Len(full) THEN full ELSE SubSeq(full, 1, d.cut)

----------------------------------------------------------------------------
(* The descriptions the files are written from.                             *)

DJoint(name, parent, px, py, pz, ox) ==
  [name |-> name, parent |-> parent, pos |-> <<px, py, pz>>, ori |-> <<ox, "0", "0">>]
DVert(u, v, sw, wc) == [u |-> u, v |-> v, sw |-> sw, wc |-> wc]
DTri(a, b, c) == [a |-> a, b |-> b, c |-> c]
DWeight(jid, bias, px, py, pz) == [jid |-> jid, bias |-> bias, pos |-> <<px, py, pz>>]

Canonical == <<"version", "commandline", "numJoints", "numMeshes", "joints", "mesh">>

\* one root joint without rotation at (t, 0, 0); one mesh of one vertex bound by
\* one weight of bias 1 at (p, 0, 0) to joint 0
Scenario(t, p, eolJ, eolM) ==
  [open |-> TRUE, eolJ |-> eolJ, eolM |-> eolM, order |-> Canonical,
   declJ |-> "1", declM |-> "1",
   joints |-> <<DJoint("\"root\"", "-1", t, "0", "0", "0")>>,
   shader |-> "\"d/t.tga\"",
   declV |-> "1", verts |-> <<DVert("0", "0", "0", "1")>>,
   declT |-> "1", tris |-> <<DTri("0", "0", "0")>>,
   declW |-> "1", weights |-> <<DWeight("0", "1", p, "0", "0")>>,
   close |-> TRUE, cut |-> -1]

ScenarioFiles ==
  {Scenario(t, p, eJ, eM) : t \in {"0", "2"}, p \in {"1", "3.0"}, eJ \in Eols, eM \in Eols}

\* two joints, and a mesh of two vertices, two triangles and two weights; no
\* field of a first entry is 0 where the second entry's differs
TwoOfEach(eolJ, eolM) ==
  [open |-> TRUE, eolJ |-> eolJ, eolM |-> eolM, order |-> Canonical,
   declJ |-> "2", declM |-> "1",
   joints |-> <<DJoint("\"root\"", "-1", "2", "0", "1", "0"),
                DJoint("\"arm\"", "0", "0", "3", "0", "1")>>,
   shader |-> "\"t.tga\"",
   declV |-> "2", verts |-> <<DVert("1", "2", "0", "1"), DVert("3", "5", "1", "1")>>,
   declT |-> "2", tris |-> <<DTri("1", "0", "1"), DTri("0", "1", "0")>>,
   declW |-> "2", weights |-> <<DWeight("0", "1", "1", "0", "0"),
                                DWeight("1", "2", "0", "1", "0")>>,
   close |-> TRUE, cut |-> -1]

\* TwoOfEach with one numeric field of one entry replaced by a word that is
\* no number
NotANumber == "x"
TolerantOf(d) ==
  {[d EXCEPT !.joints[i].parent = NotANumber] : i \in 1 .. 2}
    \cup {[d EXCEPT !.joints[i].pos[c] = NotANumber] : i \in 1 .. 2, c \in {1, 3}}
    \cup {[d EXCEPT !.joints[i].ori[1] = NotANumber] : i \in 1 .. 2}
    \cup {[d EXCEPT !.verts[i].u = NotANumber] : i \in 1 .. 2}
    \cup {[d EXCEPT !.verts[i].v = NotANumber] : i \in 1 .. 2}
    \cup {[d EXCEPT !.tris[i].a = NotANumber] : i \in 1 .. 2}
    \cup {[d EXCEPT !.tris[i].c = NotANumber] : i \in 1 .. 2}
    \cup {[d EXCEPT !.weights[i].bias = NotANumber] : i \in 1 .. 2}
    \cup {[d EXCEPT !.weights[i].pos[2] = NotANumber] : i \in 1 .. 2}
TolerantFiles == TolerantOf(TwoOfEach("padded", "padded"))

\* files cut short: TwoOfEach and its variant without the closing brace, cut
\* after every CutStride-th character
CutStride == 4
CutsOf(d) ==
  {[d EXCEPT !.cut = k * CutStride] : k \in 0 .. (Len(FileText(d)) \div CutStride)}
TruncatedFiles ==
  UNION {CutsOf(TwoOfEach(e, e)) : e \in Eols}
    \cup {[TwoOfEach(e, e) EXCEPT !.close = FALSE] : e \in Eols}

\* the declared numJoints against the joint entries written, and the place of
\* the numJoints line
Orders ==
  {Canonical,
   <<"version", "numMeshes", "joints", "mesh", "numJoints">>,
   <<"version", "numJoints", "numMeshes", "joints", "mesh", "numJoints">>,
   <<"version", "numJoints", "numMeshes", "mesh">>,
   <<"numJoints", "joints", "joints", "mesh">>}
CountFiles ==
  {[TwoOfEach("padded", "padded") EXCEPT
      !.order = o, !.declJ = n,
      !.joints = SubSeq(@, 1, k),
      !.declV = w, !.verts = IF w = "1" THEN <<DVert("0", "0", "0", "1")>> ELSE <<>>,
      !.declW = "1", !.weights = <<DWeight("0", "1", "1", "0", "0")>>]
     : o \in Orders, n \in {"-1", "0", "1", "2", "x"}, k \in 0 .. 2, w \in {"0", "1"}}

\* the references of a vertex and of a weight, in and out of range
ReferenceFiles ==
  {[Scenario("2", "1", "padded", "padded") EXCEPT
      !.verts[1].sw = sw, !.verts[1].wc = wc, !.weights[1].jid = jid]
     : sw \in {"-1", "0", "1", "2"}, wc \in {"-1", "0", "1", "2"}, jid \in {"-1", "0", "1"}}

\* a path that cannot be opened
MissingFiles == {[Scenario("0", "1", "padded", "padded") EXCEPT !.open = FALSE]}

\* a file with two mesh blocks
TwoMeshFiles ==
  {[Scenario("2", "1", "padded", "padded") EXCEPT
      !.order = <<"version", "numJoints", "numMeshes", "joints", "mesh", "mesh">>,
      !.declM = "2"]}

\* a file whose triangle has a negative vertex index
NegativeIndexFiles ==
  {[Scenario("2", "1", "padded", "padded") EXCEPT !.tris = <<DTri("1", "-1", "0")>>]}

\* a comment line after the version line or at the end of the file
Comments == {"// by hand", "// numJoints 2", "// mesh data"}
CommentFiles ==
  {[Scenario("2", "1", "padded", "padded") EXCEPT !.order = o]
     : o \in {<<"version", c, "numJoints", "numMeshes", "joints", "mesh">> : c \in Comments}
            \cup {Canonical \o <<c>> : c \in Comments}}

\* TwoOfEach whole, its mesh lines ending either way
EntryFiles == {TwoOfEach("padded", e) : e \in Eols}

Files ==
  ScenarioFiles \cup TolerantFiles \cup TruncatedFiles \cup CountFiles
    \cup ReferenceFiles \cup MissingFiles \cup TwoMeshFiles
    \cup NegativeIndexFiles \cup CommentFiles \cup EntryFiles

\* the files on whose Models load_animation and update are called
Animated ==
  ScenarioFiles \cup CountFiles \cup MissingFiles \cup TwoMeshFiles
    \cup NegativeIndexFiles

----------------------------------------------------------------------------
(* Model::new and Model::load.                                              *)

\* the path the Model is made from, and its directory component
MeshFile == "models/bob.md5mesh"
Dirname(path) == IF path = "models/bob.md5mesh" THEN "models" ELSE "."

\* the filename component of a shader word's path, with the quotes removed
ShaderFilename(w) ==
  CASE w = "\"t.tga\"" -> "t.tga"
    [] w = "\"d/t.tga\"" -> "t.tga"
    [] OTHER -> w

NoAnimation ==
  [some |-> FALSE, num_joints |-> 0, joint_infos |-> <<>>, skeleton |-> <<>>]

\* the struct Model::new builds before it calls load
ModelNew ==
  [file_directory |-> Dirname(MeshFile), version |-> 0, num_joints |-> 0,
   num_meshes |-> 0, is_animated |-> FALSE, joints |-> <<>>, meshes |-> <<>>,
   animation |-> NoAnimation]

\* the locals of the "joints" and "mesh" arms, as the arms declare them, and
\* the passes the running for loop has left
Locals ==
  [joint |-> JointNew,
   mesh |-> MeshNew, vert |-> VertexNew, tri |-> TriangleNew, weight |-> WeightNew,
   num_verts |-> 0, num_tris |-> 0, num_weights |-> 0,
   left |-> 0]

\* the state objects the program has (@mut State boxes), and the Director
\* before any call
StateObjects == {"game", "menu"}
NoDispatch == [op |-> "none", state |-> "none", before |-> <<>>, calls |-> <<>>]

NoCall ==
  [op |-> "none", cand |-> NoAnimation, before |-> NoAnimation, ret |-> FALSE,
   events |-> <<>>]

\* success only for a file read without a conversion error, which load does
\* not do
CleanReturn(errors) == errors = 0

\* what load returns once its loop has ended
LoadReturn(errors) == TRUE

Init ==
  /\ desc \in Files
  /\ file = FileText(desc)
  /\ ps = [pos |-> 0, eof |-> FALSE, param |-> "", errors |-> 0]
  /\ pc = "new"
  /\ model = ModelNew
  /\ cur = Locals
  /\ loadOk = "none"
  /\ last = NoCall
  /\ snap = <<>>
  /\ states = <<>>
  /\ status = [s \in StateObjects |-> "new"]
  /\ trail = NoDispatch

\* Model::new calls load; load opens the file, clears the Model's joints and
\* meshes and reads the first word, or returns false
LoadOpen ==
  /\ pc = "new"
  /\ IF ~desc.open
     THEN /\ pc' = "done"
          /\ loadOk' = FALSE
          /\ UNCHANGED <<ps, model>>
     ELSE /\ model' = [model EXCEPT !.joints = <<>>, !.meshes = <<>>]
          /\ ps' = ReadParam(ps)
          /\ pc' = "top"
          /\ UNCHANGED loadOk
  /\ UNCHANGED <<dvars, desc, file, cur, last, snap>>

\* while !fio.eof(): the test of the outer loop
TopLoop ==
  /\ pc = "top"
  /\ IF ps.eof
     THEN pc' = "done" /\ loadOk' = LoadReturn(ps.errors)
     ELSE pc' = "top_body" /\ UNCHANGED loadOk
  /\ UNCHANGED <<dvars, desc, file, ps, model, cur, last, snap>>

\* an arm of the outer match that is followed by "Move to the next param"
TopArm(word, p1, m1) ==
  /\ pc = "top_body"
  /\ ps.param = word
  /\ ps' = ReadParam(p1)
  /\ model' = m1
  /\ pc' = "top"
  /\ UNCHANGED <<dvars, desc, file, cur, loadOk, last, snap>>

VersionRead(r) == TopArm("MD5Version", r.ps, [model EXCEPT !.version = r.val])

TopVersion == VersionRead(ReadType(ps, model.version, "int"))

TopCommandline == TopArm("commandline", IgnoreLine(ps), model)

\* vec::with_capacity of a negative count: the allocation fails the task
\* a bounds check or an allocation fails: the task ends, and the Model with it
Panic(word) ==
  /\ pc = "top_body"
  /\ ps.param = word
  /\ pc' = "panic"
  /\ UNCHANGED <<dvars, desc, file, ps, model, cur, loadOk, last, snap>>

\* self.joints = vec::with_capacity(self.num_joints as uint): an empty vector;
\* a negative count is a capacity no allocation gives
NumJointsRead(r) ==
  IF r.val >= 0
  THEN TopArm("numJoints", r.ps, [model EXCEPT !.num_joints = r.val, !.joints = <<>>])
  ELSE Panic("numJoints")

TopNumJoints == NumJointsRead(ReadType(ps, model.num_joints, "int"))

NumMeshesRead(r) ==
  IF r.val >= 0
  THEN TopArm("numMeshes", r.ps, [model EXCEPT !.num_meshes = r.val, !.meshes = <<>>])
  ELSE Panic("numMeshes")

TopNumMeshes == NumMeshesRead(ReadType(ps, model.num_meshes, "int"))

\* the "joints" arm up to its loop
TopJoints ==
  /\ pc = "top_body"
  /\ ps.param = "joints"
  /\ ps' = ReadJunk(ps)
  /\ cur' = [cur EXCEPT !.joint = JointNew, !.left = model.num_joints]
  /\ pc' = "joints_loop"
  /\ UNCHANGED <<dvars, desc, file, model, loadOk, last, snap>>

\* a joint is read: compute_w, push, and the rest of the line is ignored
JointRead(e) ==
  /\ ps' = IgnoreLine(e.ps)
  /\ cur' = [cur EXCEPT !.joint = WithW(e.rec), !.left = @ - 1]
  /\ model' = [model EXCEPT !.joints = Append(@, WithW(e.rec))]

\* one pass of for _ in range(0, self.num_joints)
JointsPass ==
  /\ pc = "joints_loop"
  /\ cur.left > 0
  /\ JointRead(ReadEntry(ps, cur.joint, JointReads, 1))
  /\ UNCHANGED <<dvars, desc, file, pc, loadOk, last, snap>>

\* the loop is over: read_junk!(), and "Move to the next param"
JointsEnd ==
  /\ pc = "joints_loop"
  /\ cur.left <= 0
  /\ ps' = ReadParam(ReadJunk(ps))
  /\ pc' = "top"
  /\ UNCHANGED <<dvars, desc, file, model, cur, loadOk, last, snap>>

\* the "mesh" arm up to the test of its loop
TopMesh ==
  /\ pc = "top_body"
  /\ ps.param = "mesh"
  /\ ps' = ReadParam(ReadJunk(ps))
  /\ cur' = Locals
  /\ pc' = "mesh"
  /\ UNCHANGED <<dvars, desc, file, model, loadOk, last, snap>>

TopKeywords == {"MD5Version", "commandline", "numJoints", "numMeshes", "joints", "mesh"}

\* _ => { }
TopOther ==
  /\ ps.param \notin TopKeywords
  /\ TopArm(ps.param, ps, model)

\* while param != "}": the test of the mesh loop, the loop going on
MeshLoop ==
  /\ pc = "mesh"
  /\ ps.param # "}"
  /\ pc' = "mesh_body"
  /\ UNCHANGED <<dvars, desc, file, ps, model, cur, loadOk, last, snap>>

\* the mesh loop ends: prepare_mesh, push, and "Move to the next param"
MeshClose ==
  /\ pc = "mesh"
  /\ ps.param = "}"
  /\ IF SkinInBounds(model.joints, cur.mesh)
     THEN /\ model' = [model EXCEPT
                         !.meshes = Append(@, PrepareMesh(model.joints, cur.mesh))]
          /\ ps' = ReadParam(ps)
          /\ pc' = "top"
     ELSE /\ pc' = "panic"
          /\ UNCHANGED <<ps, model>>
  /\ UNCHANGED <<dvars, desc, file, cur, loadOk, last, snap>>

\* an arm of the inner match, and the read_param that ends the loop's body
MeshArm(word, p1, c1) ==
  /\ pc = "mesh_body"
  /\ ps.param = word
  /\ ps' = ReadParam(p1)
  /\ cur' = c1
  /\ pc' = "mesh"
  /\ UNCHANGED <<dvars, desc, file, model, loadOk, last, snap>>

\* mesh.texture = self.file_directory + "/" + the filename without quotes
Texture(w) == model.file_directory \o "/" \o ShaderFilename(w)

ShaderRead(p1) ==
  MeshArm("shader", IgnoreLine(p1), [cur EXCEPT !.mesh.texture = Texture(p1.param)])

MeshShader == ShaderRead(ReadParam(ps))

\* a count is read and the rest of its line ignored: the arm's loop begins
CountRead(word, what, n) ==
  /\ pc = "mesh_body"
  /\ ps.param = word
  /\ ps' = IgnoreLine(n.ps)
  /\ cur' = [cur EXCEPT !["num_" \o what \o "s"] = n.val, !.left = n.val]
  /\ pc' = what
  /\ UNCHANGED <<dvars, desc, file, model, loadOk, last, snap>>

MeshNumVerts == CountRead("numverts", "vert", ReadType(ps, cur.num_verts, "int"))

MeshNumTris == CountRead("numtris", "tri", ReadType(ps, cur.num_tris, "int"))

MeshNumWeights == CountRead("numweights", "weight", ReadType(ps, cur.num_weights, "int"))

Entries == {"vert", "tri", "weight"}

\* an entry is read: it is pushed and the rest of its line is ignored
EntryRead(what, e) ==
  /\ ps' = IgnoreLine(e.ps)
  /\ cur' = [cur EXCEPT ![what] = e.rec, !.mesh = Push(what, @, e.rec), !.left = @ - 1]

\* one pass of for _ in range(0, num_verts | num_tris | num_weights); pc names
\* the loop that runs
EntriesPass ==
  /\ pc \in Entries
  /\ cur.left > 0
  /\ EntryRead(pc, ReadEntry(ps, cur[pc], ReadsOf(pc), 1))
  /\ UNCHANGED <<dvars, desc, file, pc, model, loadOk, last, snap>>

\* the loop is over: the read_param that ends the body of the mesh loop
EntriesEnd ==
  /\ pc \in Entries
  /\ cur.left <= 0
  /\ ps' = ReadParam(ps)
  /\ pc' = "mesh"
  /\ UNCHANGED <<dvars, desc, file, model, cur, loadOk, last, snap>>

MeshKeywords == {"shader", "numverts", "numtris", "numweights"}

\* _ => { ignore_line!(); }
MeshOther ==
  /\ ps.param \notin MeshKeywords
  /\ MeshArm(ps.param, IgnoreLine(ps), cur)

LoadStep ==
  \/ LoadOpen
  \/ TopLoop
  \/ TopVersion
  \/ TopCommandline
  \/ TopNumJoints
  \/ TopNumMeshes
  \/ TopJoints
  \/ JointsPass
  \/ JointsEnd
  \/ TopMesh
  \/ TopOther
  \/ MeshLoop
  \/ MeshClose
  \/ MeshShader
  \/ MeshNumVerts
  \/ MeshNumTris
  \/ MeshNumWeights
  \/ EntriesPass
  \/ EntriesEnd
  \/ MeshOther

\* the positions of the program inside load
Loading == {"new", "top", "top_body", "joints_loop", "mesh", "mesh_body"} \cup Entries

----------------------------------------------------------------------------
(* The Animation collaborator (module md5, used by model.rs): what          *)
(* Animation::new can return and what Animation::update can leave.           *)

\* the joint infos of a chain of n joints: "root" without parent, then "arm"
\* and further bones, each the child of the joint before it
ChainName(i) == IF i = 1 THEN "\"root\"" ELSE IF i = 2 THEN "\"arm\"" ELSE "\"bone\""
Chain(n) == [i \in 1 .. n |-> [name |-> ChainName(i), parent_id |-> i - 2]]

\* a chain, and the chains that differ from it in the name or in the parent
\* of one joint
JointInfos(n) ==
  {Chain(n)}
    \cup {[Chain(n) EXCEPT ![i].name = "\"other\""] : i \in 1 .. n}
    \cup {[Chain(n) EXCEPT ![i].parent_id = @ + 1] : i \in 1 .. n}

\* the poses of an animated joint
Poses == {[position |-> Zero3, orientation |-> Zero3, w |-> 1],
          [position |-> <<5, 0, 0>>, orientation |-> <<0, 1, 0>>, w |-> 0]}

SeqsOf(S, n) == [1 .. n -> S]

\* the skeletons of n joints
Skeletons(n) == SeqsOf(Poses, n)

\* the skeleton of a new animation: every joint in its first pose
FirstPose == [position |-> Zero3, orientation |-> Zero3, w |-> 1]

\* Some(animation): one joint info and one pose per joint
Animations ==
  UNION {{[some |-> TRUE, num_joints |-> n, joint_infos |-> infos,
           skeleton |-> [i \in 1 .. n |-> FirstPose]]
            : infos \in JointInfos(n)}
         : n \in 0 .. MaxAnimJoints}

----------------------------------------------------------------------------
(* Model::check_animation, Model::load_animation and Model::update.         *)

\* if self.num_joints != animation.num_joints { return false; }
CountsMatch(m, animation) == m.num_joints = animation.num_joints

\* the test of one joint of the loop
JointMatches(mesh_joint, anim_joint) ==
  /\ mesh_joint.name = anim_joint.name
  /\ mesh_joint.parent = anim_joint.parent_id

\* for i in range(0, self.joints.len()), from the i-th joint on: the index
\* into joint_infos is checked before the joints are compared
RECURSIVE CheckJoints(_, _, _)
CheckJoints(m, animation, i) ==
  IF i > Len(m.joints) THEN "valid"
  ELSE IF i > Len(animation.joint_infos) THEN "panic"
  ELSE IF ~JointMatches(m.joints[i], animation.joint_infos[i]) THEN "invalid"
  ELSE CheckJoints(m, animation, i + 1)

CheckAnimation(m, animation) ==
  IF ~CountsMatch(m, animation) THEN "invalid" ELSE CheckJoints(m, animation, 1)

\* the slot after load_animation: the candidate is stored before it is
\* checked, and the slot is emptied when the check fails
SlotAfter(before, cand, valid) == IF valid THEN cand ELSE NoAnimation

\* load_animation(file): cand is what Animation::new(file) returns
LoadAnimation(cand) ==
  /\ pc = "done"
  /\ desc \in Animated
  /\ IF cand.some /\ CheckAnimation(model, cand) = "panic"
     THEN /\ pc' = "panic"
          /\ UNCHANGED <<model, last>>
     ELSE /\ model' = [model EXCEPT !.animation =
                         SlotAfter(@, cand, cand.some /\ CheckAnimation(model, cand) = "valid")]
          /\ last' = [op |-> "load_animation", cand |-> cand,
                      before |-> model.animation, ret |-> model'.animation.some,
                      events |-> <<>>]
          /\ UNCHANGED pc
  /\ UNCHANGED <<dvars, desc, file, ps, cur, loadOk, snap>>

\* every index prepare_mesh_with_skeleton uses is inside its vector
ReskinInBounds(skel, mesh) ==
  /\ Len(mesh.positions) >= Len(mesh.verts)
  /\ SkinInBounds(skel, mesh)

\* the calls update makes: the advance of the animation and the re-skinning
\* of the i-th mesh
Advance == <<"animation.update", 0>>
Reskin(i) == <<"prepare_mesh_with_skeleton", i>>

\* the loop taken from the last mesh down to the first, which update does not
\* do
RECURSIVE ReskinLoopDown(_, _, _, _)
ReskinLoopDown(skel, meshes, i, calls) ==
  IF i > Len(meshes) THEN [meshes |-> meshes, calls |-> calls]
  ELSE ReskinLoopDown(skel,
                      [meshes EXCEPT ![Len(meshes) + 1 - i] =
                         PrepareMeshWithSkeleton(skel, @)],
                      i + 1, Append(calls, Reskin(Len(meshes) + 1 - i)))

\* for i in range(0, self.meshes.len()) { self.prepare_mesh_with_skeleton(i) },
\* from the i-th mesh on, after the calls already made
RECURSIVE ReskinLoop(_, _, _, _)
ReskinLoop(skel, meshes, i, calls) ==
  IF i > Len(meshes) THEN [meshes |-> meshes, calls |-> calls]
  ELSE ReskinLoop(skel, [meshes EXCEPT ![i] = PrepareMeshWithSkeleton(skel, @)],
                  i + 1, Append(calls, Reskin(i)))

\* the meshes update leaves: the animation is advanced, then the loop runs
Reskinned(skel, meshes) == ReskinLoop(skel, meshes, 1, <<Advance>>).meshes

\* update(dt): skel is the skeleton animation.update(dt) leaves
Update(skel) ==
  /\ pc = "done"
  /\ desc \in Animated
  /\ IF ~model.animation.some
     THEN /\ skel = <<>>
          /\ UNCHANGED <<model, pc>>
     ELSE /\ skel \in Skeletons(model.animation.num_joints)
          /\ IF \A i \in 1 .. Len(model.meshes) : ReskinInBounds(skel, model.meshes[i])
             THEN /\ model' = [model EXCEPT !.animation.skeleton = skel,
                                            !.meshes = Reskinned(skel, @)]
                  /\ UNCHANGED pc
             ELSE /\ pc' = "panic"
                  /\ UNCHANGED model
  /\ last' = [op |-> "update", cand |-> NoAnimation,
              before |-> model.animation, ret |-> FALSE,
              events |-> IF ~model.animation.some THEN <<>>
                         ELSE IF pc' = "panic" THEN <<Advance>>
                         ELSE ReskinLoop(skel, model.meshes, 1, <<Advance>>).calls]
  /\ UNCHANGED <<dvars, desc, file, ps, cur, loadOk, snap>>

----------------------------------------------------------------------------
(* The bind-pose kernel on its own: prepare_mesh run again and again on     *)
(* joints and a mesh drawn from small sets.                                  *)

\* how many times the kernel is run
MaxRuns == 2

KernelJoints ==
  {<<[name |-> "\"root\"", parent |-> -1, position |-> <<2, 0, 1>>,
      orientation |-> Zero3, w |-> 1]>>,
   <<[name |-> "\"root\"", parent |-> -1, position |-> <<2, 0, 1>>,
      orientation |-> Zero3, w |-> 1],
     [name |-> "\"arm\"", parent |-> 0, position |-> <<0, 3, 0>>,
      orientation |-> <<1, 0, 0>>, w |-> 0]>>}

\* a vertex as a mesh section or an earlier run may have left it
KernelVerts ==
  [tex_coord : {<<1, 2>>}, start_weight : {0, 1}, weight_count : {0, 1, 2},
   position : {Zero3, <<7, 7, 7>>}, normal : {Zero3}]

KernelWeights ==
  {<<[joint_id |-> j1, bias |-> b1, position |-> <<1, 0, 0>>],
     [joint_id |-> j2, bias |-> b2, position |-> <<0, 1, 2>>]>>
     : j1 \in {0, 1}, j2 \in {0, 1}, b1 \in {1, 2}, b2 \in {1, 2}}

\* the output buffers before the run: as the numverts section leaves them
\* (tex_coords filled, positions empty), or as an earlier skinning left them
KernelMeshes ==
  {[MeshNew EXCEPT !.verts = vs, !.weights = ws,
                   !.tex_coords = [i \in 1 .. Len(vs) |-> vs[i].tex_coord],
                   !.positions = IF stale THEN [i \in 1 .. Len(vs) |-> <<9, 9, 9>>] ELSE <<>>]
     : vs \in UNION {SeqsOf(KernelVerts, n) : n \in 0 .. 2},
       ws \in KernelWeights, stale \in BOOLEAN}

InitKernel ==
  /\ desc \in MissingFiles
  /\ file = <<>>
  /\ ps = [pos |-> 0, eof |-> FALSE, param |-> "", errors |-> 0]
  /\ pc = "kernel"
  /\ \E joints \in KernelJoints : model = [ModelNew EXCEPT !.joints = joints]
  /\ \E mesh \in KernelMeshes : cur = [Locals EXCEPT !.mesh = mesh]
  /\ loadOk = "none"
  /\ last = NoCall
  /\ snap = <<>>
  /\ states = <<>>
  /\ status = [s \in StateObjects |-> "new"]
  /\ trail = NoDispatch

\* the buffers a run leaves
Buffers(mesh) == [positions |-> mesh.positions, tex_coords |-> mesh.tex_coords]

\* self.prepare_mesh(&mut mesh)
KernelRun ==
  /\ pc = "kernel"
  /\ Len(snap) < MaxRuns
  /\ IF SkinInBounds(model.joints, cur.mesh)
     THEN /\ cur' = [cur EXCEPT !.mesh = PrepareMesh(model.joints, @)]
          /\ snap' = Append(snap, Buffers(cur'.mesh))
          /\ UNCHANGED pc
     ELSE /\ pc' = "panic"
          /\ UNCHANGED <<cur, snap>>
  /\ UNCHANGED <<dvars, desc, file, ps, model, loadOk, last>>

SpecKernel == InitKernel /\ [][KernelRun]_vars

Next ==
  \/ LoadStep
  \/ \E cand \in Animations \cup {NoAnimation} : LoadAnimation(cand)
  \/ \E skel \in UNION {Skeletons(n) : n \in 0 .. MaxAnimJoints} : Update(skel)

Spec == Init /\ [][Next]_vars

\* load runs on: no step of it waits for anything
SpecLoad == Spec /\ WF_vars(LoadStep)

----------------------------------------------------------------------------
(* The Director: a stack of states.  push and pop load and unload a state,   *)
(* the six handlers offer an event to the states of the stack until one      *)
(* captures it.  What a state's handler returns is the state's business and  *)
(* is drawn freely.                                                          *)

\* one call the Director made on a state: the handler, the state object, its
\* place in the stack (0 when it is not taken from the stack), the stack at
\* the time of the call and what the handler returned
Call(handler, state, pos, stack, captured) ==
  [handler |-> handler, state |-> state, pos |-> pos, stack |-> stack,
   captured |-> captured]

\* the places of the stack in the order an iterator yields them: mut_iter
\* from the first element, mut_rev_iter from the last
MutIter(n) == [k \in 1 .. n |-> k]
MutRevIter(n) == [k \in 1 .. n |-> n + 1 - k]

\* for self.states.<iterator>.advance |x| { if x.<handler>(..) { break; } },
\* from the k-th element the iterator yields on; captures[p] is what the
\* handler of the state at place p returns
RECURSIVE Offer(_, _, _, _, _)
Offer(handler, walk, k, captures, calls) ==
  IF k > Len(walk) THEN calls
  ELSE IF captures[walk[k]]
       THEN Append(calls, Call(handler, states[walk[k]], walk[k], states, TRUE))
       ELSE Offer(handler, walk, k + 1, captures,
                  Append(calls, Call(handler, states[walk[k]], walk[k], states, FALSE)))

\* a handler of the Director: the assertion, then the loop
Dispatch(handler, walk) ==
  /\ pc = "director"
  /\ IF Len(states) = 0
     THEN /\ pc' = "panic"
          /\ UNCHANGED trail
     ELSE /\ \E captures \in [1 .. Len(states) -> BOOLEAN] :
               trail' = [op |-> handler, state |-> "none", before |-> states,
                         calls |-> Offer(handler, walk, 1, captures, <<>>)]
          /\ UNCHANGED pc
  /\ UNCHANGED <<states, status, mvars>>

DirectorUpdate == Dispatch("update", MutIter(Len(states)))
DirectorRender == Dispatch("render", MutIter(Len(states)))
KeyAction == Dispatch("key_action", MutRevIter(Len(states)))
KeyChar == Dispatch("key_char", MutRevIter(Len(states)))
MouseAction == Dispatch("mouse_action", MutRevIter(Len(states)))
MouseMoved == Dispatch("mouse_moved", MutRevIter(Len(states)))

\* push(state): state.load(); self.states.push(state)
DirectorPush(state) ==
  /\ pc = "director"
  /\ Len(states) < MaxStates
  /\ status' = [status EXCEPT ![state] = "loaded"]
  /\ states' = Append(states, state)
  /\ trail' = [op |-> "push", state |-> state, before |-> states,
               calls |-> <<Call("load", state, 0, states, FALSE)>>]
  /\ UNCHANGED <<pc, mvars>>

\* the stack without its top
Front(stack) == SubSeq(stack, 1, Len(stack) - 1)

\* pop(): let mut state = self.states.pop(); state.unload().  Popping an
\* empty vector fails the task
DirectorPop ==
  /\ pc = "director"
  /\ IF Len(states) = 0
     THEN /\ pc' = "panic"
          /\ UNCHANGED <<states, status, trail>>
     ELSE /\ states' = Front(states)
          /\ status' = [status EXCEPT ![states[Len(states)]] = "unloaded"]
          /\ trail' = [op |-> "pop", state |-> states[Len(states)], before |-> states,
                       calls |-> <<Call("unload", states[Len(states)], 0,
                                        Front(states), FALSE)>>]
          /\ UNCHANGED pc
  /\ UNCHANGED mvars

\* Director::new(): no state on the stack
InitDirector ==
  /\ desc \in MissingFiles
  /\ file = <<>>
  /\ ps = [pos |-> 0, eof |-> FALSE, param |-> "", errors |-> 0]
  /\ pc = "director"
  /\ model = ModelNew
  /\ cur = Locals
  /\ loadOk = "none"
  /\ last = NoCall
  /\ snap = <<>>
  /\ states = <<>>
  /\ status = [s \in StateObjects |-> "new"]
  /\ trail = NoDispatch

NextDirector ==
  \/ \E state \in StateObjects : DirectorPush(state)
  \/ DirectorPop
  \/ DirectorUpdate
  \/ DirectorRender
  \/ KeyAction
  \/ KeyChar
  \/ MouseAction
  \/ MouseMoved

SpecDirector == InitDirector /\ [][NextDirector]_vars

----------------------------------------------------------------------------
(* The properties.                                                          *)

\* the candidate has as many joints as the Model holds, each with the name
\* and the parent of the bind joint at its index
ExactMatch(joints, cand) ==
  /\ cand.num_joints = Len(joints)
  /\ Len(cand.joint_infos) = Len(joints)
  /\ \A i \in 1 .. Len(joints) : JointMatches(joints[i], cand.joint_infos[i])

\* the candidate has as many joints as the Model holds and exactly one of them
\* differs from the bind joint at its index in name or parent
DiffersInOne(joints, cand) ==
  /\ cand.num_joints = Len(joints)
  /\ Len(cand.joint_infos) = Len(joints)
  /\ Cardinality({i \in 1 .. Len(joints) :
                    ~JointMatches(joints[i], cand.joint_infos[i])}) = 1

\* C1: load_animation accepts a candidate that exactly matches the bind
\* joints and attaches it; it rejects a candidate that differs in one joint's
\* name or parent and leaves the animation slot as it was before the call.
C1_AcceptOrKeep ==
  (pc = "done" /\ last.op = "load_animation" /\ last.cand.some) =>
    /\ ExactMatch(model.joints, last.cand) =>
         (last.ret /\ model.animation = last.cand)
    /\ DiffersInOne(model.joints, last.cand) =>
         (~last.ret /\ model.animation = last.before)

\* the positions of the bind pose: what prepare_mesh stored in the vertices
BindPositions(mesh) == [x \in 1 .. Len(mesh.verts) |-> mesh.verts[x].position]

\* C2: whenever the Model has no animation attached, the positions of every
\* mesh are the bind-pose positions.
C2_BindPoseWithoutAnimation ==
  (pc = "done" /\ ~model.animation.some) =>
    \A i \in 1 .. Len(model.meshes) :
      model.meshes[i].positions = BindPositions(model.meshes[i])

\* C3: load_animation reports success only if the candidate's joint count is
\* the number of bind joints the Model holds and every bind joint has the
\* name and the parent of the candidate's joint at its index.
C3_AcceptedOnlyIfMatching ==
  (last.op = "load_animation" /\ last.ret) => ExactMatch(model.joints, last.cand)

\* C4: load terminates on every file, a file that ends inside a joints or a
\* mesh block included.
C4_LoadTerminates == <>(pc \notin Loading)

\* C5: when the file cannot be opened, what the constructor returns differs
\* from what it returns after a successful load (here: of the empty file,
\* which leaves the Model as it was constructed).
C5_FailureDistinguishable ==
  (pc = "done" /\ last.op = "none" /\ loadOk = FALSE) => model # ModelNew

\* the empty file is loaded with success and leaves the Model as constructed
EmptyFileLoads ==
  (pc = "done" /\ last.op = "none" /\ desc.open /\ Len(file) = 0) =>
    (loadOk = TRUE /\ model = ModelNew)

\* C6: load returns failure exactly when the file cannot be opened; a file
\* that opens is reported as success, conversion failures or not.
C6_FailureOnlyOnOpen == (pc = "done") => (loadOk = desc.open)

\* a file with a conversion failure has been loaded, with success
C6_Witness == pc = "done" /\ desc.open /\ loadOk = TRUE /\ ps.errors > 0

\* the value a numeric token stands for, 0 when it is no number
ValueOrZero(kind, w) == IF FromStr(kind, w).ok THEN FromStr(kind, w).val ELSE 0
Floats(ws) == [c \in 1 .. Len(ws) |-> ValueOrZero("float", ws[c])]

\* the entries a file is written from, with 0 for a token that is no number
WrittenJoints(d) ==
  [i \in 1 .. Len(d.joints) |->
     [name |-> d.joints[i].name, parent |-> ValueOrZero("int", d.joints[i].parent),
      position |-> Floats(d.joints[i].pos), orientation |-> Floats(d.joints[i].ori)]]
WrittenVerts(d) ==
  [i \in 1 .. Len(d.verts) |->
     [tex_coord |-> Floats(<<d.verts[i].u, d.verts[i].v>>),
      start_weight |-> ValueOrZero("int", d.verts[i].sw),
      weight_count |-> ValueOrZero("int", d.verts[i].wc)]]
WrittenTris(d) ==
  [i \in 1 .. Len(d.tris) |->
     <<ValueOrZero("int", d.tris[i].a), ValueOrZero("int", d.tris[i].b),
       ValueOrZero("int", d.tris[i].c)>>]
WrittenWeights(d) ==
  [i \in 1 .. Len(d.weights) |->
     [joint_id |-> ValueOrZero("int", d.weights[i].jid),
      bias |-> ValueOrZero("float", d.weights[i].bias),
      position |-> Floats(d.weights[i].pos)]]

\* the entries the Model holds
ParsedJoints(m) ==
  [i \in 1 .. Len(m.joints) |->
     [name |-> m.joints[i].name, parent |-> m.joints[i].parent,
      position |-> m.joints[i].position, orientation |-> m.joints[i].orientation]]
ParsedVerts(mesh) ==
  [i \in 1 .. Len(mesh.verts) |->
     [tex_coord |-> mesh.verts[i].tex_coord,
      start_weight |-> mesh.verts[i].start_weight,
      weight_count |-> mesh.verts[i].weight_count]]
ParsedTris(mesh) == [i \in 1 .. Len(mesh.triangles) |-> mesh.triangles[i].indices]

\* C7: when one numeric field of an entry, first or not, is no number, load
\* reports success, that field holds 0 and every other field holds the value
\* written in the file.
C7_TolerantParsing ==
  (desc \in TolerantFiles /\ pc \notin Loading) =>
    /\ pc = "done" /\ loadOk = TRUE
    /\ ParsedJoints(model) = WrittenJoints(desc)
    /\ Len(model.meshes) = 1
    /\ ParsedVerts(model.meshes[1]) = WrittenVerts(desc)
    /\ ParsedTris(model.meshes[1]) = WrittenTris(desc)
    /\ model.meshes[1].weights = WrittenWeights(desc)

\* the position of the vertex of a Scenario file: (t + p, 0, 0)
ScenarioPosition(d) ==
  <<ValueOrZero("float", d.joints[1].pos[1]) + ValueOrZero("float", d.weights[1].pos[1]),
    0, 0>>

\* C8: a file with one root joint without rotation at (t, 0, 0) and one mesh
\* whose one vertex has one weight of bias 1 at (p, 0, 0) on joint 0 loads to
\* a Model whose bind-pose position of that vertex is (t + p, 0, 0).
C8_EndToEnd ==
  (desc \in ScenarioFiles /\ pc \notin Loading /\ last.op = "none") =>
    /\ pc = "done"
    /\ Len(model.meshes) = 1
    /\ model.meshes[1].positions = <<ScenarioPosition(desc)>>

\* a Scenario file whose lines end in a space before the line feed loads to
\* the position (t + p, 0, 0)
PaddedScenarioLoads ==
  (desc \in ScenarioFiles /\ desc.eolJ = "padded" /\ desc.eolM = "padded"
     /\ pc \notin Loading /\ last.op = "none") =>
    /\ pc = "done"
    /\ Len(model.meshes) = 1
    /\ model.meshes[1].positions = <<ScenarioPosition(desc)>>

\* C9: whenever load completes, every vertex's weight range ends inside the
\* weights of its mesh and every weight's joint_id indexes a bind joint.
C9_ReferenceContainment ==
  (pc = "done") =>
    \A i \in 1 .. Len(model.meshes) :
      /\ \A x \in 1 .. Len(model.meshes[i].verts) :
           model.meshes[i].verts[x].start_weight + model.meshes[i].verts[x].weight_count
             <= Len(model.meshes[i].weights)
      /\ \A k \in 1 .. Len(model.meshes[i].weights) :
           InRange(model.meshes[i].weights[k].joint_id, model.joints)

\* C10: prepare_mesh run again on the same joints, vertices and weights
\* leaves the same positions and the same texture coordinates as the run
\* before.
C10_KernelIdempotent ==
  \A k \in 1 .. Len(snap) - 1 : snap[k + 1] = snap[k]

\* the kernel has run twice on a mesh with a weighted vertex and with buffers
\* an earlier skinning had filled
C10_Witness ==
  /\ pc = "kernel"
  /\ Len(snap) >= 2
  /\ Len(snap[2].positions) > 0
  /\ \E x \in 1 .. Len(cur.mesh.verts) :
       cur.mesh.verts[x].weight_count > 0 /\ snap[2].positions[x] # Zero3

\* the positions a mesh has when it is skinned against skel
SkinnedPositions(skel, mesh) ==
  [x \in 1 .. Len(mesh.verts) |-> SkinVertex(skel, mesh, mesh.verts[x])]

\* C11: an update(dt) on a Model with an animation attached advances the
\* animation once, before any re-skinning, then re-skins every mesh once, in
\* ascending mesh order, against the skeleton that advance produced.
C11_AdvanceThenReskinInOrder ==
  (pc = "done" /\ last.op = "update" /\ last.before.some) =>
    /\ last.events =
         <<Advance>> \o [i \in 1 .. Len(model.meshes) |-> Reskin(i)]
    /\ \A i \in 1 .. Len(model.meshes) :
         model.meshes[i].positions =
           SkinnedPositions(model.animation.skeleton, model.meshes[i])

\* an update of a Model with two meshes has moved its vertices off the bind
\* pose
C11_Witness ==
  /\ pc = "done" /\ last.op = "update" /\ last.before.some
  /\ Len(model.meshes) = 2
  /\ last.events = <<Advance, Reskin(1), Reskin(2)>>
  /\ \A i \in 1 .. 2 :
       /\ model.meshes[i].positions # BindPositions(model.meshes[i])
       /\ model.meshes[i].positions # SkinnedPositions(last.before.skeleton, model.meshes[i])

\* what update has no business with: everything of a mesh but its positions
\* (the positions buffer and the copy each vertex holds of its bind position)
MeshFixed(mesh) ==
  [tex_coords |-> mesh.tex_coords, indices |-> mesh.indices,
   texture |-> mesh.texture, triangles |-> mesh.triangles,
   weights |-> mesh.weights,
   ranges |-> [x \in 1 .. Len(mesh.verts) |->
                 <<mesh.verts[x].start_weight, mesh.verts[x].weight_count>>]]

ModelFixed(m) ==
  [joints |-> m.joints, meshes |-> [i \in 1 .. Len(m.meshes) |-> MeshFixed(m.meshes[i])]]

\* C12: update changes no mesh's tex_coords, indices, texture, vertex weight
\* ranges or weights, and not the bind joints; with no animation attached it
\* changes nothing in the Model.
C12_UpdateTouchesPositionsOnly ==
  [][last'.op = "update" =>
       /\ ModelFixed(model') = ModelFixed(model)
       /\ ~model.animation.some => model' = model]_vars

\* an update has re-skinned a mesh that has texture coordinates, indices and
\* weights
C12_Witness ==
  /\ pc = "done" /\ last.op = "update" /\ last.before.some
  /\ \E i \in 1 .. Len(model.meshes) :
       /\ model.meshes[i].positions # BindPositions(model.meshes[i])
       /\ model.meshes[i].tex_coords # <<>>
       /\ model.meshes[i].indices # <<>>
       /\ model.meshes[i].weights # <<>>

\* the k-th entry of indices belongs to index Slot(k) of triangle TriOf(k)
TriOf(k) == ((k - 1) \div 3) + 1
Slot(k) == ((k - 1) % 3) + 1

\* one position and one texture coordinate per vertex, three indices per
\* triangle
BuffersParallel(mesh) ==
  /\ Len(mesh.positions) = Len(mesh.verts)
  /\ Len(mesh.tex_coords) = Len(mesh.verts)
  /\ Len(mesh.indices) = 3 * Len(mesh.triangles)

\* the u32 that is the number i, and the u32 an i32 wraps to
SameNumber(i) == <<"u32", i>>
Wrapped(i) == IF i < 0 THEN <<"2^32+", i>> ELSE <<"u32", i>>

\* C13 as stated: in every state after load, reached by update and
\* load_animation, every mesh has one position and one texture coordinate per
\* vertex and three indices per triangle, which are the numbers the triangles
\* hold, in order.
C13_IndicesEqualTriangles ==
  pc = "done" =>
    \A i \in 1 .. Len(model.meshes) :
      /\ BuffersParallel(model.meshes[i])
      /\ \A k \in 1 .. Len(model.meshes[i].indices) :
           model.meshes[i].indices[k] =
             SameNumber(model.meshes[i].triangles[TriOf(k)].indices[Slot(k)])

\* C13: in every state after load, reached by update and load_animation,
\* every mesh has one position and one texture coordinate per vertex and
\* three indices per triangle, which are the triangles' indices converted to
\* u32, in order: a negative index is held as 2^32 plus the index.
C13_ParallelBuffers ==
  pc = "done" =>
    \A i \in 1 .. Len(model.meshes) :
      /\ BuffersParallel(model.meshes[i])
      /\ \A k \in 1 .. Len(model.meshes[i].indices) :
           model.meshes[i].indices[k] =
             Wrapped(model.meshes[i].triangles[TriOf(k)].indices[Slot(k)])

\* an update has re-skinned a mesh whose triangle holds a negative index
C13_Witness ==
  /\ pc = "done" /\ last.op = "update" /\ last.before.some
  /\ \E i \in 1 .. Len(model.meshes) :
       /\ Len(model.meshes[i].verts) > 0
       /\ \E k \in 1 .. Len(model.meshes[i].triangles) :
            model.meshes[i].triangles[k].indices = <<1, -1, 0>>

\* C14: at top level a word that is no keyword is ignored together with the
\* rest of its line: a file with a comment line that holds mesh or numJoints
\* loads to the Model of the file without that line (one joint, one mesh, the
\* vertex at (t + p, 0, 0)).
C14_CommentLineIgnored ==
  (desc \in CommentFiles /\ pc \notin Loading /\ last.op = "none") =>
    /\ pc = "done"
    /\ model.num_joints = 1
    /\ Len(model.joints) = 1
    /\ Len(model.meshes) = 1
    /\ model.meshes[1].positions = <<ScenarioPosition(desc)>>

\* a comment line without a keyword in it is ignored
PlainCommentIgnored ==
  (desc \in CommentFiles /\ pc \notin Loading /\ last.op = "none"
     /\ \A k \in 1 .. Len(desc.order) : desc.order[k] \in Comments => desc.order[k] = "// by hand") =>
    /\ pc = "done"
    /\ model.num_joints = 1
    /\ Len(model.joints) = 1
    /\ Len(model.meshes) = 1
    /\ model.meshes[1].positions = <<ScenarioPosition(desc)>>

\* the entries a mesh holds are the first entries written, in order
IsPrefix(held, written) ==
  /\ Len(held) <= Len(written)
  /\ \A k \in 1 .. Len(held) : held[k] = written[k]

EntriesInOrder(mesh, d) ==
  /\ IsPrefix(ParsedVerts(mesh), WrittenVerts(d))
  /\ IsPrefix(ParsedTris(mesh), WrittenTris(d))
  /\ IsPrefix(mesh.weights, WrittenWeights(d))

\* while the mesh block is read its entries are the first entries written,
\* and the mesh load ends with holds them all
LoadsEntryLines ==
  /\ pc \in {"mesh", "mesh_body"} \cup Entries => EntriesInOrder(cur.mesh, desc)
  /\ pc \notin Loading =>
       /\ pc = "done"
       /\ Len(model.meshes) = 1
       /\ ParsedVerts(model.meshes[1]) = WrittenVerts(desc)
       /\ ParsedTris(model.meshes[1]) = WrittenTris(desc)
       /\ model.meshes[1].weights = WrittenWeights(desc)

\* C15: in a mesh block with one entry per line, every line ending directly
\* after its last token, the k-th vertex, triangle and weight carry the
\* fields of the k-th entry line: discarding the rest of a line never
\* consumes the entry line that follows.
C15_TightLinesInOrder ==
  (desc \in EntryFiles /\ desc.eolM = "tight" /\ last.op = "none") => LoadsEntryLines

\* with a whitespace character before every line feed the entries are read
\* in order
PaddedLinesInOrder ==
  (desc \in EntryFiles /\ desc.eolM = "padded" /\ last.op = "none") => LoadsEntryLines

\* how many sections of a file have the name
Occurrences(order, name) == Cardinality({k \in 1 .. Len(order) : order[k] = name})

\* the joint entries present in a file: those of each joints block, in order
RECURSIVE Repeated(_, _)
Repeated(entries, n) == IF n = 0 THEN <<>> ELSE entries \o Repeated(entries, n - 1)
JointsPresent(d) == Repeated(WrittenJoints(d), Occurrences(d.order, "joints"))

\* C16: the declared numJoints and numMeshes only pre-size the containers:
\* the joints and meshes the Model holds after load are the joint entries
\* and the mesh blocks present in the file, whatever the declared values and
\* wherever the numJoints line stands.
C16_HeldIsPresent ==
  (desc \in CountFiles /\ pc \notin Loading /\ last.op = "none") =>
    /\ pc = "done"
    /\ ParsedJoints(model) = JointsPresent(desc)
    /\ Len(model.meshes) = Occurrences(desc.order, "mesh")

\* a file in the canonical order that declares the joints it holds loads them
DeclaredJointsLoad ==
  (desc \in CountFiles /\ desc.order = Canonical
     /\ ValueOrZero("int", desc.declJ) = Len(desc.joints) /\ Len(desc.joints) > 0
     /\ pc \notin Loading /\ last.op = "none") =>
    /\ pc = "done"
    /\ ParsedJoints(model) = JointsPresent(desc)
    /\ Len(model.meshes) = Occurrences(desc.order, "mesh")

\* the events the Director dispatches
Updates == {"update", "render"}
Inputs == {"key_action", "key_char", "mouse_action", "mouse_moved"}
Events == Updates \cup Inputs

\* C17: an event of any kind (update, render, key_action, key_char,
\* mouse_action, mouse_moved) is offered first to the state on top of the
\* stack, then to the next lower state, and so on.
C17_TopFirst ==
  trail.op \in Events =>
    \A k \in 1 .. Len(trail.calls) : trail.calls[k].pos = Len(trail.before) + 1 - k

\* the input events are offered from the top of the stack down
InputsTopFirst ==
  trail.op \in Inputs =>
    \A k \in 1 .. Len(trail.calls) : trail.calls[k].pos = Len(trail.before) + 1 - k

\* update and render are offered from the bottom of the stack up
UpdatesBottomFirst ==
  trail.op \in Updates =>
    \A k \in 1 .. Len(trail.calls) : trail.calls[k].pos = k

\* how many calls of the dispatch went to the state object
CallsTo(state) ==
  Cardinality({k \in 1 .. Len(trail.calls) : trail.calls[k].state = state})

\* how many calls of the dispatch went to the place of the stack
CallsAt(pos) ==
  Cardinality({k \in 1 .. Len(trail.calls) : trail.calls[k].pos = pos})

NoneCaptured == \A k \in 1 .. Len(trail.calls) : ~trail.calls[k].captured

\* C18: in one dispatch on a non-empty stack the handler of each state is
\* invoked at most once; after a capture no further state receives the
\* event; when no state captures, every state receives it exactly once.
C18_OncePerState ==
  (trail.op \in Events /\ Len(trail.before) > 0) =>
    /\ \A state \in StateObjects : CallsTo(state) <= 1
    /\ \A k \in 1 .. Len(trail.calls) - 1 : ~trail.calls[k].captured
    /\ NoneCaptured =>
         \A p \in 1 .. Len(trail.before) : CallsTo(trail.before[p]) = 1

\* the same of the places of the stack: each is offered the event at most
\* once, none after a capture, and each exactly once when none captures
OncePerEntry ==
  (trail.op \in Events /\ Len(trail.before) > 0) =>
    /\ \A p \in 1 .. Len(trail.before) : CallsAt(p) <= 1
    /\ \A k \in 1 .. Len(trail.calls) :
         /\ trail.calls[k].pos \in 1 .. Len(trail.before)
         /\ trail.calls[k].state = trail.before[trail.calls[k].pos]
    /\ \A k \in 1 .. Len(trail.calls) - 1 : ~trail.calls[k].captured
    /\ NoneCaptured => \A p \in 1 .. Len(trail.before) : CallsAt(p) = 1

\* the state objects of a stack
Held(stack) == {stack[p] : p \in 1 .. Len(stack)}

\* C19: push invokes load once, before the state is on the stack; pop removes
\* the state pushed last of those remaining and invokes unload on that state
\* and no other; so every state on the stack has been loaded and not
\* unloaded since, and no dispatch reaches a popped state.
C19_Lifecycle ==
  /\ trail.op = "push" =>
       /\ trail.calls = <<Call("load", trail.state, 0, trail.before, FALSE)>>
       /\ trail.state \notin Held(trail.calls[1].stack)
       /\ states = Append(trail.before, trail.state)
  /\ trail.op = "pop" =>
       /\ states = Front(trail.before)
       /\ trail.state = trail.before[Len(trail.before)]
       /\ trail.calls = <<Call("unload", trail.state, 0, states, FALSE)>>
  /\ \A p \in 1 .. Len(states) : status[states[p]] = "loaded"
  /\ trail.op \in Events =>
       \A k \in 1 .. Len(trail.calls) : status[trail.calls[k].state] = "loaded"

\* push loads the state and puts it on top; pop takes the top and unloads it
PushLoadsPopUnloads ==
  /\ trail.op = "push" =>
       /\ trail.calls = <<Call("load", trail.state, 0, trail.before, FALSE)>>
       /\ states = Append(trail.before, trail.state)
       /\ status[trail.state] = "loaded"
  /\ trail.op = "pop" =>
       /\ states = Front(trail.before)
       /\ trail.state = trail.before[Len(trail.before)]
       /\ trail.calls = <<Call("unload", trail.state, 0, states, FALSE)>>
       /\ status[trail.state] = "unloaded"

============================================================================
